---- MODULE Spec2Model ----
(***************************************************************************)
(* Model of scripts/fetch_archive_metadata.py: the per-document pipeline   *)
(* (identifier resolution, metadata retrieval with retry, audio-asset      *)
(* selection, front-matter merge-and-rewrite) and the batch loop of main.  *)
(*                                                                         *)
(* Text is a sequence of one-character strings, so that the string         *)
(* operations of the script (startswith, split, strip, splitlines, lower,  *)
(* quote, str, int, float) are computed character by character.            *)
(***************************************************************************)
EXTENDS Integers, Sequences, FiniteSets, TLC

\* ------------------------------------------------------------------ text

NL == "\n"
DELIM == <<"-", "-", "-">>

Whitespace == {" ", NL, "\t", "\r"}
Digits == <<"0", "1", "2", "3", "4", "5", "6", "7", "8", "9">>
DigitSet == {Digits[i] : i \in 1..Len(Digits)}

\* s.startswith(p)
StartsWith(s, p) == Len(s) >= Len(p) /\ SubSeq(s, 1, Len(p)) = p

\* s.endswith(p)
EndsWith(s, p) == Len(s) >= Len(p) /\ SubSeq(s, Len(s) - Len(p) + 1, Len(s)) = p

\* the least element of a non-empty set of integers
Min(S) == CHOOSE i \in S : \A j \in S : i <= j

Max(S) == CHOOSE i \in S : \A j \in S : i >= j

\* s.find(sub, from): the first index >= from at which sub occurs, 0 if none
Find(s, sub, from) ==
    LET hits == {i \in from..(Len(s) - Len(sub) + 1) :
                    SubSeq(s, i, i + Len(sub) - 1) = sub}
    IN  IF hits = {} THEN 0 ELSE Min(hits)

\* sub in s
Contains(s, sub) == Find(s, sub, 1) # 0

\* s.split(sep, 1)
SplitOnce(s, sep) ==
    LET i == Find(s, sep, 1)
    IN  IF i = 0 THEN <<s>>
        ELSE <<SubSeq(s, 1, i - 1), SubSeq(s, i + Len(sep), Len(s))>>

\* s.split(sep, 2)
SplitTwice(s, sep) ==
    LET first == SplitOnce(s, sep)
    IN  IF Len(first) = 1 THEN first
        ELSE <<first[1]>> \o SplitOnce(first[2], sep)

\* s.strip()
Strip(s) ==
    LET inked == {i \in 1..Len(s) : s[i] \notin Whitespace}
    IN  IF inked = {} THEN <<>> ELSE SubSeq(s, Min(inked), Max(inked))

\* s.splitlines(): the lines of s without their line ends; a final line end
\* opens no further line
RECURSIVE SplitLines(_)
SplitLines(s) ==
    IF s = <<>> THEN <<>>
    ELSE LET i == Find(s, <<NL>>, 1)
         IN  IF i = 0 THEN <<s>>
             ELSE <<SubSeq(s, 1, i - 1)>> \o SplitLines(SubSeq(s, i + 1, Len(s)))

\* the concatenation of pieces[lo..hi]
RECURSIVE Concat(_, _, _)
Concat(pieces, lo, hi) ==
    IF lo > hi THEN <<>>
    ELSE IF lo = hi THEN pieces[lo]
    ELSE LET mid == (lo + hi) \div 2
         IN  Concat(pieces, lo, mid) \o Concat(pieces, mid + 1, hi)

\* sep.join(lines)
Join(lines, sep) ==
    Concat([i \in 1..Len(lines) |-> IF i = 1 THEN lines[i] ELSE sep \o lines[i]],
           1, Len(lines))

LowerOf(c) ==
    CASE c = "M" -> "m"
      [] c = "P" -> "p"
      [] c = "O" -> "o"
      [] c = "G" -> "g"
      [] c = "A" -> "a"
      [] c = "V" -> "v"
      [] c = "B" -> "b"
      [] c = "R" -> "r"
      [] OTHER -> c

\* s.lower()
Lower(s) == [i \in 1..Len(s) |-> LowerOf(s[i])]

\* s.replace(old, new) for a one-character old
Replace(s, old, new) ==
    Concat([i \in 1..Len(s) |-> IF s[i] = old THEN new ELSE <<s[i]>>], 1, Len(s))

\* urllib.parse.quote: letters, digits and _.-~/ are kept, every other
\* character becomes its percent escape
QuoteOf(c) ==
    CASE c = " "  -> <<"%", "2", "0">>
      [] c = ":"  -> <<"%", "3", "A">>
      [] c = "\"" -> <<"%", "2", "2">>
      [] c = "#"  -> <<"%", "2", "3">>
      [] c = NL   -> <<"%", "0", "A">>
      [] OTHER    -> <<c>>

quote(s) == Concat([i \in 1..Len(s) |-> QuoteOf(s[i])], 1, Len(s))

\* str(n) for an integer n >= 0
RECURSIVE StrNat(_)
StrNat(n) ==
    IF n < 10 THEN <<Digits[n + 1]>>
    ELSE StrNat(n \div 10) \o <<Digits[(n % 10) + 1]>>

\* f"{n:02}"
Pad2(n) == IF n < 10 THEN <<"0">> \o StrNat(n) ELSE StrNat(n)

DigitValue(c) == CHOOSE d \in 0..9 : Digits[d + 1] = c

IsDigits(s) == s # <<>> /\ \A i \in 1..Len(s) : s[i] \in DigitSet

RECURSIVE DigitsValue(_)
DigitsValue(s) ==
    IF s = <<>> THEN 0
    ELSE 10 * DigitsValue(SubSeq(s, 1, Len(s) - 1)) + DigitValue(s[Len(s)])

\* ----------------------------------------------------------- JSON values

\* A decoded JSON value as the script reads it: a field that is absent, null,
\* a number or a string.
Absent == [t |-> "absent", n |-> 0, s |-> <<>>]
JNull == [t |-> "null", n |-> 0, s |-> <<>>]
JNum(n) == [t |-> "num", n |-> n, s |-> <<>>]
JStr(s) == [t |-> "str", n |-> 0, s |-> s]

\* bool(v)
Truthy(v) == (v.t = "num" /\ v.n # 0) \/ (v.t = "str" /\ v.s # <<>>)

\* a or b
Or(a, b) == IF Truthy(a) THEN a ELSE b

\* d.get(key): an absent key reads as None
Get(v) == IF v.t = "absent" THEN JNull ELSE v

\* d.get(key, default)
GetDefault(v, default) == IF v.t = "absent" THEN default ELSE v

\* str(v) of a number or a string
Str(v) == IF v.t = "num" THEN StrNat(v.n) ELSE v.s

Unsigned(s) == IF s # <<>> /\ Head(s) \in {"+", "-"} THEN Tail(s) ELSE s

\* int(v): [ok |-> FALSE] stands for the ValueError of a non-numeric string
int(v) ==
    IF v.t = "num" THEN [ok |-> TRUE, v |-> v.n]
    ELSE LET body == Unsigned(Strip(v.s))
         IN  IF IsDigits(body)
             THEN [ok |-> TRUE,
                   v |-> IF Head(Strip(v.s)) = "-" THEN 0 - DigitsValue(body)
                         ELSE DigitsValue(body)]
             ELSE [ok |-> FALSE, v |-> 0]

\* int(float(v)) for unsigned decimal text "ddd", "ddd.ddd", "ddd." or ".ddd";
\* [ok |-> FALSE] stands for the ValueError of any other text
int_float(v) ==
    IF v.t = "num" THEN [ok |-> TRUE, v |-> v.n]
    ELSE LET body == Strip(v.s)
             parts == SplitOnce(body, <<".">>)
             whole == parts[1]
             frac == IF Len(parts) = 2 THEN parts[2] ELSE <<>>
             wellFormed ==
                 /\ whole \o frac # <<>>
                 /\ whole = <<>> \/ IsDigits(whole)
                 /\ frac = <<>> \/ IsDigits(frac)
         IN  IF wellFormed THEN [ok |-> TRUE, v |-> DigitsValue(whole)]
             ELSE [ok |-> FALSE, v |-> 0]

\* ------------------------------------------------------ find_identifier

S_archive_org == <<"a", "r", "c", "h", "i", "v", "e", ".", "o", "r", "g">>
S_details == <<"d", "e", "t", "a", "i", "l", "s">>
S_embed == <<"e", "m", "b", "e", "d">>
S_download == <<"d", "o", "w", "n", "l", "o", "a", "d">>
S_https == <<"h", "t", "t", "p", "s", ":", "/", "/">>
S_http == <<"h", "t", "t", "p">>

\* the characters of the model's alphabet outside the class [\w\-\.]
NonIdentChars == Whitespace \cup {":", "/", "\"", "#", "%", "\\", "+", "~"}

\* the longest run of [\w\-\.] characters of s from index i on
RECURSIVE IdentRun(_, _)
IdentRun(s, i) ==
    IF i > Len(s) \/ s[i] \in NonIdentChars THEN <<>>
    ELSE <<s[i]>> \o IdentRun(s, i + 1)

\* the capture of archive\.org/(?:details|embed)/([\w\-\.]+) matched at i
MatchAt(s, i) ==
    LET rest == SubSeq(s, i, Len(s))
        viaDetails == S_archive_org \o <<"/">> \o S_details \o <<"/">>
        viaEmbed == S_archive_org \o <<"/">> \o S_embed \o <<"/">>
    IN  IF StartsWith(rest, viaDetails) THEN IdentRun(s, i + Len(viaDetails))
        ELSE IF StartsWith(rest, viaEmbed) THEN IdentRun(s, i + Len(viaEmbed))
        ELSE <<>>

\* re.search(...).group(1), the capture of the leftmost match, or <<>> for None
find_identifier(text) ==
    LET hits == {i \in 1..Len(text) : MatchAt(text, i) # <<>>}
    IN  IF hits = {} THEN <<>> ELSE MatchAt(text, Min(hits))

\* ------------------------------------------------------ pick_audio_file

S_mp3 == <<"m", "p", "3">>
S_ogg == <<"o", "g", "g">>
S_m4a == <<"m", "4", "a">>
S_audio == <<"a", "u", "d", "i", "o">>
preferred == <<S_mp3, S_ogg, S_m4a>>

PickFile(i) == [k |-> "file", i |-> i]
PickNone == [k |-> "none", i |-> 0]
PickRaise == [k |-> "raise", i |-> 0]

\* the inner loop of the extension pass: f.get('name','').lower().endswith
RECURSIVE ScanExt(_, _, _)
ScanExt(files, ext, i) ==
    IF i > Len(files) THEN PickNone
    ELSE LET f == files[i]
             name == GetDefault(f.name, JStr(<<>>))
         IN  IF f.shape # "map" \/ name.t # "str" THEN PickRaise
             ELSE IF EndsWith(Lower(name.s), <<".">> \o ext) THEN PickFile(i)
             ELSE ScanExt(files, ext, i + 1)

RECURSIVE ScanPreferred(_, _)
ScanPreferred(files, exts) ==
    IF exts = <<>> THEN PickNone
    ELSE LET r == ScanExt(files, Head(exts), 1)
         IN  IF r.k # "none" THEN r ELSE ScanPreferred(files, Tail(exts))

\* the format pass: (f.get('format') or '').lower()
RECURSIVE ScanFormat(_, _)
ScanFormat(files, i) ==
    IF i > Len(files) THEN PickNone
    ELSE LET f == files[i]
             fmt == IF f.shape = "map" THEN Or(Get(f.format), JStr(<<>>)) ELSE JNull
         IN  IF f.shape # "map" \/ fmt.t # "str" THEN PickRaise
             ELSE IF Contains(Lower(fmt.s), S_audio) \/ StartsWith(Lower(fmt.s), S_mp3)
                  THEN PickFile(i)
             ELSE ScanFormat(files, i + 1)

pick_audio_file(metadata) ==
    IF metadata.shape # "map" THEN PickRaise
    ELSE LET byExt == ScanPreferred(metadata.files, preferred)
         IN  IF byExt.k # "none" THEN byExt ELSE ScanFormat(metadata.files, 1)

\* ----------------------------------------------- update_post_front_matter

\* A dict is a sequence of <<key, value>> pairs in insertion order.
HasKey(kv, k) == \E i \in 1..Len(kv) : kv[i][1] = k

Lookup(kv, k) == kv[CHOOSE i \in 1..Len(kv) : kv[i][1] = k][2]

\* kv[k] = v
Put(kv, k, v) ==
    IF HasKey(kv, k)
    THEN [i \in 1..Len(kv) |-> IF kv[i][1] = k THEN <<k, v>> ELSE kv[i]]
    ELSE Append(kv, <<k, v>>)

\* k in order
InList(order, k) == \E i \in 1..Len(order) : order[i] = k

\* a variant of has_front_matter that takes any text for a header block
has_front_matter_anywhere(content) == Contains(content, DELIM)

\* content.startswith('---')
has_front_matter(content) == StartsWith(content, DELIM)

\* the loop over the header lines: a line with a colon gives a key and a
\* value, any other line is kept in the order list as it is
RECURSIVE parse_lines(_, _, _)
parse_lines(lines, kv, order) ==
    IF lines = <<>> THEN [kv |-> kv, order |-> order]
    ELSE LET line == Head(lines)
         IN  IF Contains(line, <<":">>)
             THEN LET parts == SplitOnce(line, <<":">>)
                      k == Strip(parts[1])
                      v == Strip(parts[2])
                  IN  parse_lines(Tail(lines), Put(kv, k, v), Append(order, k))
             ELSE parse_lines(Tail(lines), kv, Append(order, line))

\* a variant of yaml_value that does not look for a colon
yaml_value_colon_blind(v) ==
    IF v.t = "str"
    THEN IF StartsWith(v.s, S_http) \/ Contains(v.s, <<" ">>)
         THEN <<"\"">> \o Replace(v.s, "\"", <<"\\", "\"">>) \o <<"\"">>
         ELSE v.s
    ELSE Str(v)

\* the text an update value is written as
yaml_value(v) ==
    IF v.t = "str"
    THEN IF Contains(v.s, <<":">>) \/ StartsWith(v.s, S_http) \/ Contains(v.s, <<" ">>)
         THEN <<"\"">> \o Replace(v.s, "\"", <<"\\", "\"">>) \o <<"\"">>
         ELSE v.s
    ELSE Str(v)

\* the loop over updates.items()
RECURSIVE merge_updates(_, _, _)
merge_updates(updates, kv, order) ==
    IF updates = <<>> THEN [kv |-> kv, order |-> order]
    ELSE LET u == Head(updates)
         IN  merge_updates(Tail(updates), Put(kv, u.k, yaml_value(u.v)),
                           IF InList(order, u.k) THEN order ELSE Append(order, u.k))

\* whether an entry of the order list is re-emitted as a raw line
keeps_raw_line(k, kv) == Contains(k, <<":">>) /\ ~HasKey(kv, k)

\* the loop that builds new_front_lines
RECURSIVE emit_lines(_, _)
emit_lines(order, kv) ==
    IF order = <<>> THEN <<>>
    ELSE LET k == Head(order)
             rest == emit_lines(Tail(order), kv)
         IN  IF keeps_raw_line(k, kv) THEN <<k>> \o rest
             ELSE IF HasKey(kv, k) THEN <<k \o <<":", " ">> \o Lookup(kv, k)>> \o rest
             ELSE rest

\* the header segment of a document, as the editor reads it
front_lines(content) == SplitLines(Strip(SplitTwice(content, DELIM)[2]))

\* update_post_front_matter up to new_content: [ok |-> FALSE] is "return False"
new_content(content, updates) ==
    IF ~has_front_matter(content) THEN [ok |-> FALSE, content |-> content]
    ELSE LET parts == SplitTwice(content, DELIM)
         IN  IF Len(parts) < 3 THEN [ok |-> FALSE, content |-> content]
             ELSE LET body == parts[3]
                      parsed == parse_lines(front_lines(content), <<>>, <<>>)
                      merged == merge_updates(updates, parsed.kv, parsed.order)
                      new_front_lines == emit_lines(merged.order, merged.kv)
                  IN  [ok |-> TRUE,
                       content |-> DELIM \o <<NL>> \o Join(new_front_lines, <<NL>>)
                                   \o <<NL>> \o DELIM \o body]

\* a variant of backup_written that copies before dry_run is looked at
backup_before_dry_run(dry_run, backup) == backup

\* the copy to scripts/backups, taken unless dry_run returned first
backup_written(dry_run, backup) == ~dry_run /\ backup

\* p.write_text(new_content), reached unless dry_run returned first
file_written(dry_run) == ~dry_run

\* --------------------------------------------------------- process_post

K_audio_url == <<"a", "u", "d", "i", "o", "_", "u", "r", "l">>
K_audio_length == <<"a", "u", "d", "i", "o", "_", "l", "e", "n", "g", "t", "h">>
K_audio_mime == <<"a", "u", "d", "i", "o", "_", "m", "i", "m", "e">>
K_itunes_duration ==
    <<"i", "t", "u", "n", "e", "s", "_", "d", "u", "r", "a", "t", "i", "o", "n">>
S_audio_mpeg == <<"a", "u", "d", "i", "o", "/", "m", "p", "e", "g">>

\* identifier or find_identifier(text); <<>> is None
resolve_identifier(identifier, text) ==
    IF identifier # <<>> THEN identifier ELSE find_identifier(text)

audio_url(ident, file_name) ==
    S_https \o S_archive_org \o <<"/">> \o S_download \o <<"/">> \o ident
    \o <<"/">> \o quote(file_name)

\* audio_file.get('size') or audio_file.get('bytes') or 0
declared_length(f) == Or(Or(Get(f.size), Get(f.bytes)), JNum(0))

\* (not audio_length or int(audio_length) == 0) and head_fallback:
\* "raise" is the ValueError of int() on a non-numeric size
head_wanted(audio_length, head_fallback) ==
    IF ~Truthy(audio_length) THEN (IF head_fallback THEN "yes" ELSE "no")
    ELSE IF ~int(audio_length).ok THEN "raise"
    ELSE IF int(audio_length).v = 0 /\ head_fallback THEN "yes"
    ELSE "no"

\* f"{h:02}:{m:02}:{s:02}" if h else f"{m:02}:{s:02}"
format_duration(dur_sec) ==
    LET h == dur_sec \div 3600
        m == (dur_sec % 3600) \div 60
        s == dur_sec % 60
    IN  IF h # 0 THEN Pad2(h) \o <<":">> \o Pad2(m) \o <<":">> \o Pad2(s)
        ELSE Pad2(m) \o <<":">> \o Pad2(s)

\* the itunes_duration text of an asset; <<>> is ''
itunes_duration(f) ==
    LET duration == Or(Or(Get(f.length), Get(f.duration)), JStr(<<>>))
    IN  IF ~Truthy(duration) THEN <<>>
        ELSE IF int_float(duration).ok THEN format_duration(int_float(duration).v)
        ELSE Str(duration)

audio_mime(file_name, audio_format) ==
    IF Contains(Lower(file_name), S_mp3) THEN JStr(S_audio_mpeg) ELSE audio_format

\* the updates dict, in insertion order
build_updates(url, audio_length, file_name, f) ==
    LET audio_format == Or(Get(f.format), JStr(<<>>))
        base == << [k |-> K_audio_url, v |-> JStr(url)],
                   [k |-> K_audio_length, v |-> audio_length],
                   [k |-> K_audio_mime, v |-> audio_mime(file_name, audio_format)] >>
    IN  IF itunes_duration(f) # <<>>
        THEN Append(base, [k |-> K_itunes_duration, v |-> JStr(itunes_duration(f))])
        ELSE base

\* -------------------------------------------------------- state machine

VARIABLES
    posts,      \* the documents on disk: path -> text
    backups,    \* scripts/backups: a set of <<path, text>> copies
    args,       \* the parsed command line
    server,     \* what the archive answers once a request gets through
    targets,    \* main: the list of paths to process
    idx,        \* main: the number of targets the loop has finished
    report,     \* main: the Result Records appended so far
    ok,         \* main: no Result Record so far reports a failure
    pc,         \* the position of the run
    text,       \* process_post: the document as read at its start
    ident,      \* process_post: the resolved identifier
    attempt,    \* fetch_metadata / head_content_length: the attempt counter
    meta,       \* process_post: what fetch_metadata returned
    work,       \* process_post: the selected asset and the values derived from it
    result,     \* process_post: the Result Record it returns
    requests    \* the urlopen calls of the current process_post, in order

vars == <<posts, backups, args, server, targets, idx, report, ok, pc, text,
          ident, attempt, meta, work, result, requests>>

NoMeta == [shape |-> "none", files |-> <<>>]
NoWork == [i |-> 0, file_name |-> <<>>, audio_url |-> <<>>, audio_length |-> JNull,
           cl |-> JNull]
NoResult == [post |-> 0, identifier |-> <<>>, success |-> FALSE, reason |-> "none",
             updates |-> <<>>]

\* the Result Record of a failed stage; updates <<>> is None
Failed(p, id, reason) ==
    [post |-> p, identifier |-> id, success |-> FALSE, reason |-> reason,
     updates |-> <<>>]

\* while attempt <= retries
may_attempt(n, retries) == n <= retries

\* a variant of retries_exhausted that gives up one attempt early
retries_exhausted_early(n, retries) == n >= retries

\* if attempt > retries: give up and return None
retries_exhausted(n, retries) == n > retries

Calls(method) == SelectSeq(requests, LAMBDA r : r.method = method)

\* main, the head of the loop, and process_post up to the call of
\* fetch_metadata
StartPost ==
    /\ pc = "main"
    /\ idx < Len(targets)
    /\ LET p == targets[idx + 1]
           id == resolve_identifier(args.id, posts[p])
       IN  /\ text' = posts[p]
           /\ ident' = id
           /\ IF id = <<>>
              THEN /\ result' = Failed(p, id, "no-identifier")
                   /\ pc' = "returned"
              ELSE /\ result' = Failed(p, id, "none")
                   /\ pc' = "fetch"
    /\ attempt' = 0
    /\ meta' = NoMeta
    /\ work' = NoWork
    /\ requests' = <<>>
    /\ UNCHANGED <<posts, backups, args, server, targets, idx, report, ok>>

\* fetch_metadata: an attempt whose response arrives and decodes
FetchOk ==
    /\ pc = "fetch"
    /\ may_attempt(attempt, args.retries)
    /\ requests' = Append(requests, [method |-> "GET", outcome |-> "ok"])
    /\ meta' = server.meta
    /\ pc' = "fetched"
    /\ UNCHANGED <<posts, backups, args, server, targets, idx, report, ok, text, ident,
                   attempt, work, result>>

\* fetch_metadata: an attempt that raises; retried after the sleep, or given
\* up with None
FetchFail ==
    /\ pc = "fetch"
    /\ may_attempt(attempt, args.retries)
    /\ requests' = Append(requests, [method |-> "GET", outcome |-> "fail"])
    /\ attempt' = attempt + 1
    /\ IF retries_exhausted(attempt + 1, args.retries)
       THEN /\ meta' = NoMeta
            /\ pc' = "fetched"
       ELSE UNCHANGED <<meta, pc>>
    /\ UNCHANGED <<posts, backups, args, server, targets, idx, report, ok, text, ident,
                   work, result>>

\* process_post from the check of meta to the decision on the HEAD fallback
SelectAsset ==
    /\ pc = "fetched"
    /\ LET p == targets[idx + 1]
           picked == pick_audio_file(meta)
           f == meta.files[picked.i]
           file_name == Get(f.name)
           url == audio_url(ident, file_name.s)
           audio_length == declared_length(f)
           head == head_wanted(audio_length, args.head_fallback)
       IN  IF meta.shape \in {"none", "empty"}
           THEN /\ result' = Failed(p, ident, "metadata-fetch-failed")
                /\ pc' = "returned"
                /\ UNCHANGED work
           ELSE IF picked.k = "raise"
           THEN /\ pc' = "raised"
                /\ UNCHANGED <<work, result>>
           ELSE IF picked.k = "none"
           THEN /\ result' = Failed(p, ident, "no-audio-file")
                /\ pc' = "returned"
                /\ UNCHANGED work
           ELSE IF ~Truthy(file_name)
           THEN /\ result' = Failed(p, ident, "no-file-name")
                /\ pc' = "returned"
                /\ UNCHANGED work
           ELSE /\ work' = [i |-> picked.i, file_name |-> file_name.s,
                            audio_url |-> url, audio_length |-> audio_length,
                            cl |-> JNull]
                /\ pc' = CASE head = "raise" -> "raised"
                           [] head = "yes" -> "head"
                           [] OTHER -> "update"
                /\ UNCHANGED result
    /\ attempt' = 0
    /\ UNCHANGED <<posts, backups, args, server, targets, idx, report, ok, text, ident,
                   meta, requests>>

\* head_content_length: an attempt whose response arrives; a Content-Length
\* that is present and not empty replaces audio_length
HeadOk ==
    /\ pc = "head"
    /\ may_attempt(attempt, args.retries)
    /\ requests' = Append(requests, [method |-> "HEAD", outcome |-> "ok"])
    /\ work' = [work EXCEPT !.cl = server.content_length,
                            !.audio_length = Or(server.content_length, @)]
    /\ pc' = "update"
    /\ UNCHANGED <<posts, backups, args, server, targets, idx, report, ok, text, ident,
                   attempt, meta, result>>

\* head_content_length: an attempt that raises
HeadFail ==
    /\ pc = "head"
    /\ may_attempt(attempt, args.retries)
    /\ requests' = Append(requests, [method |-> "HEAD", outcome |-> "fail"])
    /\ attempt' = attempt + 1
    /\ pc' = IF retries_exhausted(attempt + 1, args.retries) THEN "update" ELSE pc
    /\ UNCHANGED <<posts, backups, args, server, targets, idx, report, ok, text, ident,
                   meta, work, result>>

\* process_post from the duration on: the update set, the call of
\* update_post_front_matter and the Result Record
ApplyUpdates ==
    /\ pc = "update"
    /\ LET p == targets[idx + 1]
           f == meta.files[work.i]
           updates == build_updates(work.audio_url, work.audio_length,
                                    work.file_name, f)
           r == new_content(posts[p], updates)
       IN  /\ backups' = IF r.ok /\ backup_written(args.dry_run, args.backup)
                         THEN {b \in backups : b[1] # p} \cup {<<p, posts[p]>>}
                         ELSE backups
           /\ posts' = IF r.ok /\ file_written(args.dry_run)
                       THEN [posts EXCEPT ![p] = r.content]
                       ELSE posts
           /\ result' = [post |-> p, identifier |-> ident, success |-> r.ok,
                         reason |-> IF r.ok THEN "none" ELSE "update-failed",
                         updates |-> IF r.ok THEN updates ELSE <<>>]
    /\ pc' = "returned"
    /\ UNCHANGED <<args, server, targets, idx, report, ok, text, ident, attempt, meta,
                   work, requests>>

\* main: report.append(res) and the success flag
Collect ==
    /\ pc = "returned"
    /\ report' = Append(report, result)
    /\ ok' = (ok /\ result.success)
    /\ idx' = idx + 1
    /\ pc' = "main"
    /\ UNCHANGED <<posts, backups, args, server, targets, text, ident, attempt, meta,
                   work, result, requests>>

\* main: sys.exit(0 if ok else 1) after the loop
Exit ==
    /\ pc = "main"
    /\ idx = Len(targets)
    /\ pc' = "exit"
    /\ UNCHANGED <<posts, backups, args, server, targets, idx, report, ok, text, ident,
                   attempt, meta, work, result, requests>>

Next ==
    \/ StartPost
    \/ FetchOk
    \/ FetchFail
    \/ SelectAsset
    \/ HeadOk
    \/ HeadFail
    \/ ApplyUpdates
    \/ Collect
    \/ Exit

\* --------------------------------------------------------------- inputs

MaxRetries == 2
MaxPosts == 2
MaxLines == 2

N_show_mp3 == <<"s", "h", "o", "w", ".", "m", "p", "3">>
N_b_MP3 == <<"b", ".", "M", "P", "3">>
N_mp3_ogg == <<"m", "p", "3", ".", "o", "g", "g">>
N_a_ogg == <<"a", ".", "o", "g", "g">>
N_dashes_mp3 == <<"a", "-", "-", "-", "b", ".", "m", "p", "3">>
N_x_txt == <<"x", ".", "t", "x", "t">>
N_a_b_m4a == <<"a", " ", "b", ".", "m", "4", "a">>
F_VBR_MP3 == <<"V", "B", "R", " ", "M", "P", "3">>
F_Ogg_Vorbis == <<"O", "g", "g", " ", "V", "o", "r", "b", "i", "s">>
F_MP3_sample == <<"M", "P", "3", " ", "s", "a", "m", "p", "l", "e">>
F_Audio == <<"A", "u", "d", "i", "o">>
V_abc == <<"a", "b", "c">>
V_2048 == <<"2", "0", "4", "8">>
V_3725 == <<"3", "7", "2", "5">>
V_1_05 == <<"1", ":", "0", "5">>
V_7 == <<"7">>
V_0 == <<"0">>
I_foo_2025 == <<"f", "o", "o", "-", "2", "0", "2", "5">>
I_x_1 == <<"x", "-", "1">>
L_title == <<"t", "i", "t", "l", "e", ":", " ", "x">>
L_note == <<"#", " ", "n", "o", "t", "e">>
L_len == <<"a", "u", "d", "i", "o", "_", "l", "e", "n", "g", "t", "h", ":", " ", "5">>
L_a == <<"a", ":", " ", "b">>
L_raw_a == <<"a">>
L_url == <<"a", "u", "d", "i", "o", "_", "u", "r", "l", ":", "o", "l", "d">>
L_raw_mime == <<"a", "u", "d", "i", "o", "_", "m", "i", "m", "e">>
B_text == <<NL, "B", NL>>
B_rule == <<NL, "y", "-", "-", "-", "z", NL>>

\* a body that embeds https://archive.org/details/foo-2025
B_embed ==
    <<NL>> \o S_https \o S_archive_org \o <<"/">> \o S_details \o <<"/">>
    \o I_foo_2025 \o <<NL>>

\* a file descriptor of the metadata's files list
Entry(name, size, format, length) ==
    [shape |-> "map", name |-> name, size |-> size, bytes |-> Absent,
     format |-> format, length |-> length, duration |-> Absent]

\* an entry of the files list that is no mapping (a bare string)
BareEntry ==
    [shape |-> "other", name |-> Absent, size |-> Absent, bytes |-> Absent,
     format |-> Absent, length |-> Absent, duration |-> Absent]

Item(files) == [shape |-> "map", files |-> files]

\* one file show.mp3 with size 1000, format "VBR MP3" and length 65
ShowItem ==
    Item(<<Entry(JStr(N_show_mp3), JNum(1000), JStr(F_VBR_MP3), JNum(65))>>)

DashesItem == Item(<<Entry(JStr(N_dashes_mp3), JStr(V_7), Absent, Absent)>>)

\* the preferred extension wins over the list order; its size "0" asks for
\* the HEAD fallback and its length is no number
TwoFilesItem ==
    Item(<<Entry(JStr(N_a_ogg), Absent, JStr(F_Ogg_Vorbis), JStr(V_3725)),
           Entry(JStr(N_b_MP3), JStr(V_0), Absent, JStr(V_1_05))>>)

OggItem ==
    Item(<<[Entry(JStr(N_a_ogg), Absent, JStr(F_Ogg_Vorbis), Absent)
              EXCEPT !.bytes = JNum(512), !.duration = JStr(V_3725)]>>)

Mp3NamedOggItem ==
    Item(<<Entry(JStr(N_mp3_ogg), JStr(V_7), JStr(F_Ogg_Vorbis), Absent)>>)

SpacedNameItem ==
    Item(<<Entry(JStr(N_a_b_m4a), JNum(0), JStr(F_Audio), JNum(3725))>>)

ByFormatItem ==
    Item(<<Entry(JStr(N_x_txt), JStr(V_7), JStr(F_MP3_sample), Absent)>>)

NamelessItem == Item(<<Entry(Absent, JStr(V_7), JStr(F_Audio), Absent)>>)
NoAudioItem == Item(<<Entry(JStr(N_x_txt), JStr(V_7), Absent, Absent)>>)
NoFilesItem == Item(<<>>)
EmptyItem == [shape |-> "empty", files |-> <<>>]
NullNameItem == Item(<<Entry(JNull, JStr(V_7), JStr(F_Audio), Absent)>>)
BadSizeItem == Item(<<Entry(JStr(N_show_mp3), JStr(V_abc), Absent, Absent)>>)
BareEntryItem == Item(<<BareEntry>>)

Items ==
    {ShowItem, DashesItem, TwoFilesItem, OggItem, Mp3NamedOggItem, SpacedNameItem,
     ByFormatItem, NamelessItem, NoAudioItem, NoFilesItem, EmptyItem, NullNameItem,
     BadSizeItem, BareEntryItem}

\* the Content-Length header of the HEAD response: absent or a size
ContentLengths == {JNull, JStr(V_2048)}

Servers(items) == [meta : items, content_length : ContentLengths]

\* a document with a closed header block
Document(lines, body) ==
    DELIM \o <<NL>> \o Join(lines, <<NL>>) \o <<NL>> \o DELIM \o body

\* a header block that is never closed
Unclosed(lines) == DELIM \o <<NL>> \o Join(lines, <<NL>>) \o <<NL>>

\* the sequences over S of length at most n
RECURSIVE SeqsUpTo(_, _)
SeqsUpTo(S, n) ==
    IF n = 0 THEN {<<>>}
    ELSE LET shorter == SeqsUpTo(S, n - 1)
         IN  shorter \cup {Append(q, x) : q \in shorter, x \in S}

PipelineDocs ==
    { Document(<<L_title>>, B_embed),
      Document(<<L_title, L_note, L_len>>, B_embed),
      Document(<<L_raw_mime, L_url>>, B_embed),
      Document(<<L_title>>, B_text),
      Unclosed(<<L_title>>) \o B_embed,
      L_title \o B_embed }

EditLines == {L_a, L_note, L_raw_a, L_url, L_raw_mime, <<>>}

EditDocs ==
    LET headers == SeqsUpTo(EditLines, MaxLines)
    IN  {Document(h, b) : h \in headers, b \in {B_text, B_rule, <<>>}}
        \cup {<<"x">> \o Document(h, B_text) : h \in headers}
        \cup {Unclosed(h) : h \in headers}
        \cup {<<>>, DELIM, DELIM \o DELIM, <<"-", "-">> \o B_rule}

Args(ids, fallbacks, retries) ==
    [id : ids, dry_run : BOOLEAN, backup : BOOLEAN, head_fallback : fallbacks,
     retries : retries]

\* main: --all takes every post, in sorted order; otherwise the one post given
Targets(n) == {[i \in 1..n |-> i]} \cup {<<p>> : p \in 1..n}

InitWith(docs, maxPosts, argSet, servers) ==
    /\ \E n \in 1..maxPosts : posts \in [1..n -> docs] /\ targets \in Targets(n)
    /\ args \in argSet
    /\ server \in servers
    /\ backups = {}
    /\ idx = 0
    /\ report = <<>>
    /\ ok = TRUE
    /\ pc = "main"
    /\ text = <<>>
    /\ ident = <<>>
    /\ attempt = 0
    /\ meta = NoMeta
    /\ work = NoWork
    /\ result = NoResult
    /\ requests = <<>>

\* one document through the whole pipeline, against every kind of item
Init == InitWith(PipelineDocs, 1, Args({<<>>, I_x_1}, BOOLEAN, 0..MaxRetries), Servers(Items))

Spec == Init /\ [][Next]_vars

\* the editor on every shape of document; the identifier is given with --id,
\* with --head-fallback and --retries 0
InitEdit ==
    InitWith(EditDocs, 1, Args({I_x_1}, {TRUE}, {0}),
             Servers({DashesItem, TwoFilesItem}))

SpecEdit == InitEdit /\ [][Next]_vars

\* the batch loop over the posts of _posts
InitBatch ==
    InitWith({Document(<<L_title>>, B_embed), Document(<<L_title>>, B_text),
              L_title \o B_embed},
             MaxPosts, Args({<<>>, I_x_1}, BOOLEAN, {0}),
             Servers({ShowItem, TwoFilesItem, NoFilesItem, NullNameItem,
                      BadSizeItem, BareEntryItem}))

SpecBatch == InitBatch /\ [][Next]_vars

\* --------------------------------------------------------------- claims

\* the document process_post is working on
Post == targets[idx + 1]

\* process_post has returned after update_post_front_matter wrote the file
Rewritten == pc = "returned" /\ result.success /\ ~args.dry_run

\* the key of a header line that has one
KeyOf(line) == Strip(SplitOnce(line, <<":">>)[1])

IsKeyLine(line) == Contains(line, <<":">>)

\* the keys of a header, in order
KeysOf(lines) ==
    LET keyLines == SelectSeq(lines, IsKeyLine)
    IN  [i \in 1..Len(keyLines) |-> KeyOf(keyLines[i])]

\* the document has a header block the editor accepts
WellFormed(content) ==
    StartsWith(content, DELIM) /\ Len(SplitTwice(content, DELIM)) >= 3

UpdateKeys(updates) == [i \in 1..Len(updates) |-> updates[i].k]

\* C1: after a successful non-dry-run update every header line without a
\* colon is still in the rewritten header, verbatim and at the position it
\* had among the header lines.
C1_PassthroughKept ==
    Rewritten =>
        LET old == front_lines(text)
            new == front_lines(posts[Post])
        IN  /\ Len(new) >= Len(old)
            /\ \A i \in 1..Len(old) : ~IsKeyLine(old[i]) => new[i] = old[i]

\* ---- C2

Line_audio_url ==
    K_audio_url \o <<":", " ", "\"">> \o S_https \o S_archive_org \o <<"/">>
    \o S_download \o <<"/">> \o I_foo_2025 \o <<"/">> \o N_show_mp3 \o <<"\"">>
Line_audio_length == K_audio_length \o <<":", " ", "1", "0", "0", "0">>
Line_audio_mime == K_audio_mime \o <<":", " ">> \o S_audio_mpeg
Line_itunes_duration_bare ==
    K_itunes_duration \o <<":", " ", "0", "1", ":", "0", "5">>
Line_itunes_duration_quoted ==
    K_itunes_duration \o <<":", " ", "\"", "0", "1", ":", "0", "5", "\"">>

FourKeys == {K_audio_url, K_audio_length, K_audio_mime, K_itunes_duration}

\* the end-to-end scenario: a document that embeds
\* archive.org/details/foo-2025 and has no audio_url key, no --id, the API
\* got through with the single file show.mp3, and process_post has ended
Scenario ==
    /\ pc \in {"returned", "raised"}
    /\ args.id = <<>>
    /\ ~args.dry_run
    /\ WellFormed(text)
    /\ Contains(text, S_archive_org \o <<"/">> \o S_details \o <<"/">> \o I_foo_2025)
    /\ ident = I_foo_2025
    /\ ~InList(KeysOf(front_lines(text)), K_audio_url)
    /\ meta = ShowItem

\* the rewritten header has gained exactly the given lines: they are its
\* lines for the four keys, and every other line has a key the header had
GainsExactly(lines) ==
    LET old == front_lines(text)
        new == front_lines(posts[Post])
    IN  /\ {new[i] : i \in {j \in 1..Len(new) : KeyOf(new[j]) \in FourKeys}} = lines
        /\ \A i \in 1..Len(new) :
               KeyOf(new[i]) \in FourKeys \/ InList(KeysOf(old), KeyOf(new[i]))

\* C2 as stated: in the end-to-end scenario process_post succeeds and the
\* header gains audio_url, audio_length: 1000, audio_mime: audio/mpeg and
\* the bare line itunes_duration: 01:05.
C2_GainsBareDuration ==
    Scenario =>
        /\ pc = "returned" /\ result.success
        /\ GainsExactly({Line_audio_url, Line_audio_length, Line_audio_mime,
                         Line_itunes_duration_bare})

\* C2 amended: in the end-to-end scenario process_post succeeds and the
\* header gains audio_url, audio_length: 1000, audio_mime: audio/mpeg and
\* itunes_duration: "01:05", in double quotes as every value with a colon.
C2_GainsQuotedDuration ==
    Scenario =>
        /\ pc = "returned" /\ result.success
        /\ GainsExactly({Line_audio_url, Line_audio_length, Line_audio_mime,
                         Line_itunes_duration_quoted})

C2_Witness ==
    /\ Scenario
    /\ result.success
    /\ InList(front_lines(posts[Post]), Line_itunes_duration_quoted)
    /\ InList(front_lines(posts[Post]), Line_audio_url)

\* ---- C3

Outcomes(method) ==
    LET calls == Calls(method) IN [i \in 1..Len(calls) |-> calls[i].outcome]

\* the retry loop is still running: every attempt so far failed and the
\* budget is not used up
Retrying(outcomes, r) ==
    /\ Len(outcomes) <= r
    /\ \A i \in 1..Len(outcomes) : outcomes[i] = "fail"

\* the retry loop has returned: k <= r failures and then a success that is
\* returned after k + 1 attempts, or r + 1 failures and then None
Returned(outcomes, r, returned, good, none) ==
    LET n == Len(outcomes)
    IN  /\ 1 <= n /\ n <= r + 1
        /\ \A i \in 1..(n - 1) : outcomes[i] = "fail"
        /\ outcomes[n] = "ok" => returned = good
        /\ outcomes[n] = "fail" => n = r + 1 /\ returned = none

\* C3: fetch_metadata and head_content_length return the first successful
\* response after k <= retries failures, in k + 1 attempts; when every
\* attempt fails they make retries + 1 attempts and return None; once they
\* have returned no further attempt is made.
C3_RetryPolicy ==
    /\ pc = "fetch" => Retrying(Outcomes("GET"), args.retries)
    /\ pc \in {"fetched", "head", "update", "returned", "raised"} /\ ident # <<>>
           => Returned(Outcomes("GET"), args.retries, meta, server.meta, NoMeta)
    /\ ident = <<>> => requests = <<>>
    /\ pc = "head" => Retrying(Outcomes("HEAD"), args.retries)
    /\ pc \in {"update", "returned"} /\ Outcomes("HEAD") # <<>>
           => Returned(Outcomes("HEAD"), args.retries, work.cl,
                       server.content_length, JNull)
    /\ pc \in {"fetch", "fetched"} => Outcomes("HEAD") = <<>>

C3_Witness ==
    /\ pc = "update"
    /\ args.retries = 2
    /\ Outcomes("GET") = <<"fail", "fail", "ok">>
    /\ Outcomes("HEAD") = <<"fail", "fail", "fail">>

\* C4: the batch loop appends exactly one Result Record per target, in
\* list order, and no error escapes process_post to abort the run.
C4_OneRecordPerTarget ==
    /\ pc # "raised"
    /\ Len(report) = idx
    /\ \A i \in 1..Len(report) : report[i].post = targets[i]
    /\ pc = "exit" => Len(report) = Len(targets)

\* C5: after a successful non-dry-run update the header of the rewritten
\* file parses to the keys of the original header, in their order,
\* followed by the update keys it did not have, in insertion order.
C5_KeyOrder ==
    Rewritten =>
        LET oldKeys == KeysOf(front_lines(text))
            isNew(k) == ~InList(oldKeys, k)
        IN  KeysOf(front_lines(posts[Post]))
                = oldKeys \o SelectSeq(UpdateKeys(result.updates), isNew)

\* the value the update set gives a key
UpdateValue(updates, k) ==
    updates[CHOOSE i \in 1..Len(updates) : updates[i].k = k].v

\* C6: audio_mime is audio/mpeg exactly when the name of the selected file
\* ends in .mp3, whatever the case, and the declared format otherwise.
C6_MimeBySuffix ==
    pc = "returned" /\ result.success =>
        LET mime == UpdateValue(result.updates, K_audio_mime)
            declared == Or(Get(meta.files[work.i].format), JStr(<<>>))
            isMp3 == EndsWith(Lower(work.file_name), <<".">> \o S_mp3)
        IN  /\ (mime = JStr(S_audio_mpeg)) <=> isMp3
            /\ ~isMp3 => mime = declared

\* C7: with dry-run no step writes a document or a backup, whatever the
\* outcome.
C7_DryRunWritesNothing ==
    [][args.dry_run => posts' = posts /\ backups' = backups /\ backups = {}]_vars

C7_Witness ==
    /\ args.dry_run /\ args.backup
    /\ pc = "returned" /\ result.success
    /\ posts[Post] = text /\ backups = {}

\* C8: for a document that does not begin with the delimiter or splits
\* into fewer than three segments the editor returns false, the file and
\* the backups are as before and process_post reports update-failed.
C8_MalformedUntouched ==
    pc = "returned" /\ work.i # 0 /\ ~WellFormed(text) =>
        /\ ~result.success
        /\ result.reason = "update-failed"
        /\ result.updates = <<>>
        /\ posts[Post] = text
        /\ backups = {}

C8_Witness ==
    /\ pc = "returned" /\ result.reason = "update-failed"
    /\ args.backup /\ ~args.dry_run
    /\ StartsWith(text, DELIM)
    /\ Len(SplitTwice(text, DELIM)) = 2
    /\ posts[Post] = text

Reasons ==
    {"no-identifier", "metadata-fetch-failed", "no-audio-file", "no-file-name",
     "update-failed"}

\* C9: process_post always ends in SUCCESS (success, no reason, updates
\* set) or FAILED(reason) (no success, no updates, one of the five
\* reasons); no request is made without an identifier, and no HEAD
\* request or write follows a failed stage.
C9_TerminalState ==
    pc \in {"returned", "raised"} =>
        /\ pc = "returned"
        /\ \/ result.success /\ result.reason = "none" /\ result.updates # <<>>
           \/ ~result.success /\ result.reason \in Reasons /\ result.updates = <<>>
        /\ result.reason = "no-identifier" <=> ident = <<>>
        /\ ident = <<>> => requests = <<>>
        /\ result.reason = "metadata-fetch-failed" <=>
               (ident # <<>> /\ meta.shape \in {"none", "empty"})
        /\ ~result.success =>
               /\ Outcomes("HEAD") = <<>> \/ result.reason = "update-failed"
               /\ posts[Post] = text
               /\ backups = {}

\* C10: applying the same update set again to the rewritten file succeeds
\* and leaves the file as the first application left it.
C10_Idempotent ==
    Rewritten =>
        /\ new_content(posts[Post], result.updates).ok
        /\ new_content(posts[Post], result.updates).content = posts[Post]

====
